---- MODULE Spec2Model ----
(***************************************************************************)
(* Model of src/src/image_processing/train.py: the ImageSequence data      *)
(* feeder (pool sampling and label encoding), the training driver main()   *)
(* and the topology built by create_model().                               *)
(*                                                                         *)
(* Python strings are sequences of one-character strings; numpy arrays are *)
(* functions over 1-based index ranges (row r of the model is row r-1 of   *)
(* the array).                                                             *)
(***************************************************************************)
EXTENDS Integers, Sequences, FiniteSets, TLC

\* ---------------------------------------------------------------- bounds
MaxFiles == 3
MaxBatch == 2
MaxLength == 2
MaxCalls == 2
MaxEpochs == 4
MaxDepth == 5
MaxModule == 2
MaxSymbols == 3

\* ------------------------------------------------------- input universes
\* Directory entries: "ab_1.p" and "ab_1.j" share the text before the first
\* dot, "a_3.p" has a one-character label, "a.b_4.p" has a dot before the
\* underscore, "bc_5.p" holds a character outside the alphabets.
FileUniverse ==
  { <<"a","b","_","1",".","p">>,
    <<"a","b","_","1",".","j">>,
    <<"b","a","_","2",".","p">>,
    <<"a","_","3",".","p">>,
    <<"a",".","b","_","4",".","p">>,
    <<"b","c","_","5",".","p">> }

Alphabets == { <<"a","b">>, <<"a",".","b">> }

Directories == { d \in SUBSET FileUniverse : Cardinality(d) <= MaxFiles }

VARIABLES
  \* ImageSequence fields
  directory,        \* entries of directory_name on disk (unchanging)
  batch_size, captcha_length, captcha_symbols,
  files,            \* self.files: label key -> filename
  used_files,       \* self.used_files
  count,            \* self.count
  \* __getitem__ frame
  pc,               \* "idle" | "loop" | "returned" | "raised"
  i,                \* loop index of `for i in range(self.batch_size)`
  y,                \* label tensors of the batch being filled
  \* history of the run
  loaded,           \* filenames put in the pool by the latest (re)build
  firstPass,        \* the filenames taken by the first `count` draws
  firstPassDraws,   \* how many of those draws have happened
  firstPassRefill,  \* a refill ran before one of those draws
  batchNames,       \* filenames drawn for the batch being filled
  batchRefills,     \* loop indices of this batch at which a refill ran
  calls,            \* __getitem__ calls started
  callsReturned,    \* __getitem__ calls that returned a batch
  everRaised,       \* some __getitem__ call raised
  everMixed         \* some returned batch was refilled after its first row

fvars == << directory, batch_size, captcha_length, captcha_symbols, files,
            used_files, count, pc, i, y, loaded, firstPass, firstPassDraws,
            firstPassRefill, batchNames, batchRefills, calls, callsReturned,
            everRaised, everMixed >>

VARIABLES
  \* main()
  args,             \* the flags given on the command line
  epochs,           \* args.epochs (0 when the flag is absent)
  mpc,              \* position of main()
  printed,          \* lines printed by main()
  exitCode,         \* -1 while the process runs
  modelBuilt, weightsLoaded, compiled, feedersBuilt,
  jsonWrites,       \* writes of <output-model-name>.json
  kerasWrites,      \* writes of <output-model-name>.keras
  resumeWrites,     \* writes of <output-model-name>_resume.h5
  epochsDone,       \* epochs completed by model.fit
  wait,             \* EarlyStopping: epochs since the last improvement
  stop_training,    \* model.stop_training
  lastImproved,     \* validation loss improved in the latest epoch
  interruptedAt,    \* position at which KeyboardInterrupt arrived
  propagated        \* an exception left main()

mvars == << args, epochs, mpc, printed, exitCode, modelBuilt, weightsLoaded,
            compiled, feedersBuilt, jsonWrites, kerasWrites, resumeWrites,
            epochsDone, wait, stop_training, lastImproved, interruptedAt,
            propagated >>

VARIABLES
  \* create_model()
  captcha_num_symbols, input_shape, model_depth, module_size,
  cm_length,        \* the captcha_length argument of create_model
  model             \* the returned network, << >> before the call

cvars == << captcha_num_symbols, input_shape, model_depth, module_size,
            cm_length, model >>

vars == << fvars, mvars, cvars >>

\* --------------------------------------------------------------- helpers
Range(s) == { s[k] : k \in DOMAIN s }

\* str.split(sep)[0]: the text before the first occurrence of sep
split0(s, sep) ==
  IF \E k \in DOMAIN s : s[k] = sep
  THEN LET first == CHOOSE k \in DOMAIN s :
                      /\ s[k] = sep
                      /\ \A m \in 1..(k-1) : s[m] # sep
       IN SubSeq(s, 1, first - 1)
  ELSE s

\* str.find(ch): 0-based index of the first occurrence, -1 when absent
find(symbols, ch) ==
  IF \E k \in DOMAIN symbols : symbols[k] = ch
  THEN (CHOOSE k \in DOMAIN symbols :
          /\ symbols[k] = ch
          /\ \A m \in 1..(k-1) : symbols[m] # ch) - 1
  ELSE -1

\* os.listdir: the entries of the directory in arbitrary order
listdir(dir) ==
  { s \in [1..Cardinality(dir) -> dir] :
      \A a, b \in 1..Cardinality(dir) : a # b => s[a] # s[b] }

\* dict(zip(map(lambda x: x.split('.')[0], file_list), file_list)):
\* a later entry with the same key replaces an earlier one
BuildPool(file_list) ==
  [ k \in { split0(file_list[n], ".") : n \in DOMAIN file_list } |->
      file_list[ CHOOSE n \in DOMAIN file_list :
                   /\ split0(file_list[n], ".") = k
                   /\ \A m \in DOMAIN file_list :
                        split0(file_list[m], ".") = k => m <= n ] ]

\* self.files.pop(random_image_label): the pool without that key
PopMut(pool, key) == pool
Pop(pool, key) == [ k \in DOMAIN pool \ {key} |-> pool[k] ]

\* numpy.zeros((batch_size, len(captcha_symbols))) for each label position
Zeros(len, bs, nsym) == [ j \in 1..len |-> [ r \in 1..bs |-> [ k \in 1..nsym |-> 0 ] ] ]

\* numpy index normalisation: a negative index counts from the end
PyIndex(idx, n) == IF idx < 0 THEN idx + n ELSE idx

\* y[j][i, :] = 0 ; y[j][i, captcha_symbols.find(ch)] = 1
EncodeRowMut(symbols, ch) ==
  [ k \in 1..Len(symbols) |->
      IF k = PyIndex(find(symbols, ch), Len(symbols)) THEN 1 ELSE 0 ]
EncodeRow(symbols, ch) ==
  [ k \in 1..Len(symbols) |->
      IF k = PyIndex(find(symbols, ch), Len(symbols)) + 1 THEN 1 ELSE 0 ]

\* for j, ch in enumerate(random_image_label): ... ; position j exists only
\* for j < captcha_length, a longer label raises IndexError at y[j]
EncodeLabel(yy, row, label, symbols) ==
  [ j \in DOMAIN yy |->
      IF j <= Len(label)
      THEN [ yy[j] EXCEPT ![row] = EncodeRow(symbols, label[j]) ]
      ELSE yy[j] ]

\* int(numpy.floor(self.count / self.batch_size)); the float quotient of two
\* integers below 2^53 floors to the integer quotient
ImageSequence_lenMut == Cardinality(DOMAIN files) \div batch_size
ImageSequence_len == count \div batch_size

\* ------------------------------------------------------------------ Init
\* ImageSequence.__init__
FeederInit ==
  /\ directory \in Directories
  /\ batch_size \in 1..MaxBatch
  /\ captcha_length \in 1..MaxLength
  /\ captcha_symbols \in Alphabets
  /\ \E file_list \in listdir(directory) :
       /\ files = BuildPool(file_list)
       /\ count = Len(file_list)
       /\ loaded = Range(BuildPool(file_list))
  /\ used_files = << >>
  /\ pc = "idle"
  /\ i = 0
  /\ y = << >>
  /\ firstPass = {}
  /\ firstPassDraws = 0
  /\ firstPassRefill = FALSE
  /\ batchNames = << >>
  /\ batchRefills = {}
  /\ calls = 0
  /\ callsReturned = 0
  /\ everRaised = FALSE
  /\ everMixed = FALSE

\* no feeder constructed
FeederIdle ==
  /\ directory = {}
  /\ batch_size = 1
  /\ captcha_length = 1
  /\ captcha_symbols = << >>
  /\ files = << >>
  /\ used_files = << >>
  /\ count = 0
  /\ pc = "none"
  /\ i = 0
  /\ y = << >>
  /\ loaded = {}
  /\ firstPass = {}
  /\ firstPassDraws = 0
  /\ firstPassRefill = FALSE
  /\ batchNames = << >>
  /\ batchRefills = {}
  /\ calls = 0
  /\ callsReturned = 0
  /\ everRaised = FALSE
  /\ everMixed = FALSE

\* main() not started
MainIdle ==
  /\ args = {}
  /\ epochs = 0
  /\ mpc = "none"
  /\ printed = << >>
  /\ exitCode = -1
  /\ modelBuilt = FALSE
  /\ weightsLoaded = FALSE
  /\ compiled = FALSE
  /\ feedersBuilt = FALSE
  /\ jsonWrites = 0
  /\ kerasWrites = 0
  /\ resumeWrites = 0
  /\ epochsDone = 0
  /\ wait = 0
  /\ stop_training = FALSE
  /\ lastImproved = FALSE
  /\ interruptedAt = "none"
  /\ propagated = FALSE

\* create_model() not called
ModelIdle ==
  /\ captcha_num_symbols = 1
  /\ input_shape = << >>
  /\ model_depth = 0
  /\ module_size = 0
  /\ cm_length = 0
  /\ model = << >>

Init == FeederInit /\ MainIdle /\ ModelIdle

\* --------------------------------------------------------------- actions
\* __getitem__ entry: allocate X and y
GetItemStart ==
  /\ UNCHANGED << mvars, cvars >>
  /\ pc \in {"idle", "returned", "raised"}
  /\ calls < MaxCalls
  /\ calls' = calls + 1
  /\ y' = Zeros(captcha_length, batch_size, Len(captcha_symbols))
  /\ i' = 0
  /\ pc' = "loop"
  /\ batchNames' = << >>
  /\ batchRefills' = {}
  /\ UNCHANGED << directory, batch_size, captcha_length, captcha_symbols,
                  files, used_files, count, loaded, firstPass,
                  firstPassDraws, firstPassRefill, callsReturned, everRaised,
                  everMixed >>

\* one iteration of `for i in range(self.batch_size)`; the directory is
\* listed only when the pool is found empty
Draw ==
  /\ UNCHANGED << mvars, cvars >>
  /\ pc = "loop"
  /\ i < batch_size
  /\ \E file_list \in (IF DOMAIN files = {} THEN listdir(directory) ELSE {<< >>}) :
       LET refill == (DOMAIN files = {})
           pool   == IF refill THEN BuildPool(file_list) ELSE files
           used   == IF refill THEN << >> ELSE used_files
       IN
       /\ loaded' = IF refill THEN Range(pool) ELSE loaded
       /\ batchRefills' = IF refill THEN batchRefills \cup {i} ELSE batchRefills
       /\ IF DOMAIN pool = {}
          THEN \* random.choice([]) raises IndexError
               /\ files' = pool
               /\ used_files' = used
               /\ pc' = "raised"
               /\ everRaised' = TRUE
               /\ UNCHANGED << i, y, firstPass, firstPassDraws,
                               firstPassRefill, batchNames >>
          ELSE \E random_image_label \in DOMAIN pool :
               LET random_image_file == pool[random_image_label]
                   label == split0(random_image_label, "_")
               IN
               /\ files' = Pop(pool, random_image_label)
               /\ used_files' = Append(used, random_image_file)
               /\ batchNames' = Append(batchNames, random_image_file)
               /\ IF firstPassDraws < count
                  THEN /\ firstPass' = firstPass \cup {random_image_file}
                       /\ firstPassDraws' = firstPassDraws + 1
                       /\ firstPassRefill' = (firstPassRefill \/ refill)
                  ELSE UNCHANGED << firstPass, firstPassDraws,
                                    firstPassRefill >>
               /\ y' = EncodeLabel(y, i + 1, label, captcha_symbols)
               /\ IF Len(label) > captcha_length
                  THEN \* y[j] with j = captcha_length raises IndexError
                       /\ pc' = "raised"
                       /\ everRaised' = TRUE
                       /\ i' = i
                  ELSE /\ pc' = "loop"
                       /\ everRaised' = everRaised
                       /\ i' = i + 1
  /\ UNCHANGED << directory, batch_size, captcha_length, captcha_symbols,
                  count, calls, callsReturned, everMixed >>

\* return X, tuple(y)
GetItemReturn ==
  /\ UNCHANGED << mvars, cvars >>
  /\ pc = "loop"
  /\ i = batch_size
  /\ pc' = "returned"
  /\ callsReturned' = callsReturned + 1
  /\ everMixed' = (everMixed \/ (\E r \in batchRefills : r > 0))
  /\ UNCHANGED << directory, batch_size, captcha_length, captcha_symbols,
                  files, used_files, count, i, y, loaded, firstPass,
                  firstPassDraws, firstPassRefill, batchNames, batchRefills,
                  calls, everRaised >>

Next == GetItemStart \/ Draw \/ GetItemReturn

Spec == Init /\ [][Next]_vars

\* ================================================================ main()
Flags == { "width", "height", "length", "batch_size", "train_dataset",
           "validate_dataset", "output_model_name", "input_model", "epochs",
           "symbols" }

\* keras.callbacks.EarlyStopping(patience=3)
Patience == 3

\* the chain of `if args.<flag> is None: print(...); exit(1)`: the message of
\* the first test that fires, "" when none does
MissingMessageMut(a) ==
  IF "width" \notin a THEN "Please specify the captcha image width"
  ELSE IF "height" \notin a THEN "Please specify the captcha image height"
  ELSE IF "length" \notin a THEN "Please specify the captcha length"
  ELSE IF "batch_size" \notin a THEN "Please specify the training batch size"
  ELSE IF "train_dataset" \notin a
       THEN "Please specify the path to the training data set"
  ELSE IF "validate_dataset" \notin a
       THEN "Please specify the path to the validation data set"
  ELSE IF "output_model_name" \notin a
       THEN "Please specify a name for the trained model"
  ELSE IF "epochs" \notin a
       THEN "Please specify the number of training epochs to run"
  ELSE IF "symbols" \notin a THEN "Please specify the captcha symbols file"
  ELSE ""
MissingMessage(a) ==
  IF "width" \notin a THEN "Please specify the captcha image width"
  ELSE IF "height" \notin a THEN "Please specify the captcha image height"
  ELSE IF "length" \notin a THEN "Please specify the captcha length"
  ELSE IF "batch_size" \notin a THEN "Please specify the training batch size"
  ELSE IF "epochs" \notin a
       THEN "Please specify the number of training epochs to run"
  ELSE IF "train_dataset" \notin a
       THEN "Please specify the path to the training data set"
  ELSE IF "validate_dataset" \notin a
       THEN "Please specify the path to the validation data set"
  ELSE IF "output_model_name" \notin a
       THEN "Please specify a name for the trained model"
  ELSE IF "symbols" \notin a THEN "Please specify the captcha symbols file"
  ELSE ""

\* ModelCheckpoint(..., save_best_only=False): save at the end of every epoch
CheckpointSavesMut(improved) == improved
CheckpointSaves(improved) == TRUE

\* except KeyboardInterrupt: the handler saves the weights and main() ends
HandlerSavesMut(n) == n
HandlerSaves(n) == n + 1

\* args = parser.parse_args()
MainInit ==
  /\ args \in SUBSET Flags
  /\ epochs \in (IF "epochs" \in args THEN 0..MaxEpochs ELSE {0})
  /\ mpc = "validate"
  /\ printed = << >>
  /\ exitCode = -1
  /\ modelBuilt = FALSE
  /\ weightsLoaded = FALSE
  /\ compiled = FALSE
  /\ feedersBuilt = FALSE
  /\ jsonWrites = 0
  /\ kerasWrites = 0
  /\ resumeWrites = 0
  /\ epochsDone = 0
  /\ wait = 0
  /\ stop_training = FALSE
  /\ lastImproved = FALSE
  /\ interruptedAt = "none"
  /\ propagated = FALSE

InitMain == MainInit /\ FeederIdle /\ ModelIdle

\* the nine presence tests
Validate ==
  /\ UNCHANGED << fvars, cvars >>
  /\ mpc = "validate"
  /\ IF MissingMessage(args) # ""
     THEN /\ printed' = Append(printed, MissingMessage(args))
          /\ exitCode' = 1
          /\ mpc' = "exited"
     ELSE /\ mpc' = "read_symbols"
          /\ UNCHANGED << printed, exitCode >>
  /\ UNCHANGED << args, epochs, modelBuilt, weightsLoaded, compiled,
                  feedersBuilt, jsonWrites, kerasWrites, resumeWrites,
                  epochsDone, wait, stop_training, lastImproved,
                  interruptedAt, propagated >>

\* with open(args.symbols) ...: captcha_symbols = readline().strip()
ReadSymbols ==
  /\ UNCHANGED << fvars, cvars >>
  /\ mpc = "read_symbols"
  /\ mpc' = "create_model"
  /\ UNCHANGED << args, epochs, printed, exitCode, modelBuilt, weightsLoaded,
                  compiled, feedersBuilt, jsonWrites, kerasWrites,
                  resumeWrites, epochsDone, wait, stop_training, lastImproved,
                  interruptedAt, propagated >>

\* model = create_model(...)
BuildModel ==
  /\ UNCHANGED << fvars, cvars >>
  /\ mpc = "create_model"
  /\ modelBuilt' = TRUE
  /\ mpc' = "load_weights"
  /\ UNCHANGED << args, epochs, printed, exitCode, weightsLoaded, compiled,
                  feedersBuilt, jsonWrites, kerasWrites, resumeWrites,
                  epochsDone, wait, stop_training, lastImproved,
                  interruptedAt, propagated >>

\* if args.input_model is not None: model.load_weights(args.input_model)
LoadWeights ==
  /\ UNCHANGED << fvars, cvars >>
  /\ mpc = "load_weights"
  /\ weightsLoaded' = ("input_model" \in args)
  /\ mpc' = "compile"
  /\ UNCHANGED << args, epochs, printed, exitCode, modelBuilt, compiled,
                  feedersBuilt, jsonWrites, kerasWrites, resumeWrites,
                  epochsDone, wait, stop_training, lastImproved,
                  interruptedAt, propagated >>

\* model.compile(...); model.summary()
Compile ==
  /\ UNCHANGED << fvars, cvars >>
  /\ mpc = "compile"
  /\ compiled' = TRUE
  /\ mpc' = "feeders"
  /\ UNCHANGED << args, epochs, printed, exitCode, modelBuilt, weightsLoaded,
                  feedersBuilt, jsonWrites, kerasWrites, resumeWrites,
                  epochsDone, wait, stop_training, lastImproved,
                  interruptedAt, propagated >>

\* training_data = ImageSequence(...); validation_data = ImageSequence(...);
\* callbacks = [...]
BuildFeeders ==
  /\ UNCHANGED << fvars, cvars >>
  /\ mpc = "feeders"
  /\ feedersBuilt' = TRUE
  /\ mpc' = "write_json"
  /\ UNCHANGED << args, epochs, printed, exitCode, modelBuilt, weightsLoaded,
                  compiled, jsonWrites, kerasWrites, resumeWrites, epochsDone,
                  wait, stop_training, lastImproved, interruptedAt,
                  propagated >>

\* with open(args.output_model_name + ".json", "w") ...: write(model.to_json())
WriteJson ==
  /\ UNCHANGED << fvars, cvars >>
  /\ mpc = "write_json"
  /\ jsonWrites' = jsonWrites + 1
  /\ mpc' = "fit"
  /\ UNCHANGED << args, epochs, printed, exitCode, modelBuilt, weightsLoaded,
                  compiled, feedersBuilt, kerasWrites, resumeWrites,
                  epochsDone, wait, stop_training, lastImproved,
                  interruptedAt, propagated >>

\* model.fit: one epoch runs to its end and the callbacks' on_epoch_end run,
\* EarlyStopping first, ModelCheckpoint second
FitEpoch ==
  /\ UNCHANGED << fvars, cvars >>
  /\ mpc = "fit"
  /\ epochsDone < epochs
  /\ ~stop_training
  /\ \E improved \in BOOLEAN :
       LET w == IF improved THEN 0 ELSE wait + 1 IN
       /\ lastImproved' = improved
       /\ wait' = w
       /\ stop_training' = (w >= Patience /\ epochsDone > 0)
       /\ kerasWrites' = IF CheckpointSaves(improved)
                         THEN kerasWrites + 1 ELSE kerasWrites
  /\ epochsDone' = epochsDone + 1
  /\ UNCHANGED << args, epochs, mpc, printed, exitCode, modelBuilt,
                  weightsLoaded, compiled, feedersBuilt, jsonWrites,
                  resumeWrites, interruptedAt, propagated >>

\* model.fit returns: all epochs ran or EarlyStopping stopped the loop
FitReturn ==
  /\ UNCHANGED << fvars, cvars >>
  /\ mpc = "fit"
  /\ (epochsDone >= epochs \/ stop_training)
  /\ mpc' = "done"
  /\ exitCode' = 0
  /\ UNCHANGED << args, epochs, printed, modelBuilt, weightsLoaded, compiled,
                  feedersBuilt, jsonWrites, kerasWrites, resumeWrites,
                  epochsDone, wait, stop_training, lastImproved,
                  interruptedAt, propagated >>

\* KeyboardInterrupt inside the try block around model.fit
InterruptInFit ==
  /\ UNCHANGED << fvars, cvars >>
  /\ mpc = "fit"
  /\ interruptedAt' = "fit"
  /\ printed' = Append(printed, "KeyboardInterrupt caught, saving current weights")
  /\ resumeWrites' = HandlerSaves(resumeWrites)
  /\ mpc' = "done"
  /\ exitCode' = 0
  /\ UNCHANGED << args, epochs, modelBuilt, weightsLoaded, compiled,
                  feedersBuilt, jsonWrites, kerasWrites, epochsDone, wait,
                  stop_training, lastImproved, propagated >>

\* KeyboardInterrupt outside the try block: nothing catches it
InterruptOutsideFit ==
  /\ UNCHANGED << fvars, cvars >>
  /\ mpc \in { "validate", "read_symbols", "create_model", "load_weights",
               "compile", "feeders", "write_json" }
  /\ interruptedAt' = mpc
  /\ propagated' = TRUE
  /\ mpc' = "killed"
  /\ exitCode' = 130
  /\ UNCHANGED << args, epochs, printed, modelBuilt, weightsLoaded, compiled,
                  feedersBuilt, jsonWrites, kerasWrites, resumeWrites,
                  epochsDone, wait, stop_training, lastImproved >>

\* any other exception (missing file, bad image, backend error) is not caught
UncaughtError ==
  /\ UNCHANGED << fvars, cvars >>
  /\ mpc \in { "read_symbols", "create_model", "load_weights", "compile",
               "feeders", "write_json", "fit" }
  /\ propagated' = TRUE
  /\ mpc' = "crashed"
  /\ exitCode' = 1
  /\ UNCHANGED << args, epochs, printed, modelBuilt, weightsLoaded, compiled,
                  feedersBuilt, jsonWrites, kerasWrites, resumeWrites,
                  epochsDone, wait, stop_training, lastImproved,
                  interruptedAt >>

NextMain ==
  \/ Validate \/ ReadSymbols \/ BuildModel \/ LoadWeights \/ Compile
  \/ BuildFeeders \/ WriteJson \/ FitEpoch \/ FitReturn \/ InterruptInFit
  \/ InterruptOutsideFit \/ UncaughtError

SpecMain == InitMain /\ [][NextMain]_vars

\* ========================================================= create_model()
RECURSIVE Pow2(_)
Pow2(n) == IF n = 0 THEN 1 ELSE 2 * Pow2(n - 1)

Min(a, b) == IF a < b THEN a ELSE b

InputShapes == { <<1, 2, 3>>, <<2, 2, 3>> }

\* Conv2D(32 * 2 ** min(i, 3), ...): the filters of block i
FiltersMut(blk) == 32 * Pow2(blk)
Filters(blk) == 32 * Pow2(Min(blk, 3))

\* the body of `for j in range(module_length)` for one j
ConvUnit(blk) ==
  << [ layer |-> "Conv2D", filters |-> Filters(blk), kernel_size |-> 3 ],
     [ layer |-> "BatchNormalization" ],
     [ layer |-> "Activation", activation |-> "relu" ] >>

RECURSIVE Repeat(_, _)
Repeat(unit, n) == IF n <= 0 THEN << >> ELSE unit \o Repeat(unit, n - 1)

\* the body of `for i, module_length in enumerate(...)` for one i
Block(blk, module_length) ==
  Repeat(ConvUnit(blk), module_length)
    \o << [ layer |-> "MaxPooling2D", pool_size |-> 2 ] >>

\* blocks blk, blk+1, ..., depth-1 in order
RECURSIVE Trunk(_, _, _)
Trunk(blk, depth, msize) ==
  IF blk >= depth THEN << >>
  ELSE Block(blk, msize) \o Trunk(blk + 1, depth, msize)

\* [Dense(captcha_num_symbols, activation='softmax', name='char_%d' % (i + 1))(x)
\*  for i in range(captcha_length)], x being the Flatten output
HeadsMut(len, nsym) ==
  [ h \in 1..len |->
      [ layer |-> "Dense", units |-> nsym, activation |-> "softmax",
        name |-> << "char_", h - 1 >>, input |-> "flatten" ] ]
Heads(len, nsym) ==
  [ h \in 1..len |->
      [ layer |-> "Dense", units |-> nsym, activation |-> "softmax",
        name |-> << "char_", h >>, input |-> "flatten" ] ]

\* the trunk layers are chained from the Input tensor; Flatten takes the last
create_model(len, nsym, shape, depth, msize) ==
  [ inputs  |-> shape,
    trunk   |-> Trunk(0, depth, msize),
    flatten |-> [ layer |-> "Flatten", name |-> "flatten" ],
    outputs |-> Heads(len, nsym) ]

InitModel ==
  /\ FeederIdle
  /\ MainIdle
  /\ cm_length \in 1..MaxLength
  /\ captcha_num_symbols \in 1..MaxSymbols
  /\ input_shape \in InputShapes
  /\ model_depth \in 0..MaxDepth
  /\ module_size \in 0..MaxModule
  /\ model = << >>

\* model = create_model(captcha_length, captcha_num_symbols, input_shape,
\*                      model_depth, module_size)
CreateModel ==
  /\ UNCHANGED << fvars, mvars >>
  /\ model = << >>
  /\ model' = create_model(cm_length, captcha_num_symbols, input_shape,
                           model_depth, module_size)
  /\ UNCHANGED << captcha_num_symbols, input_shape, model_depth, module_size,
                  cm_length >>

NextModel == CreateModel

SpecModel == InitModel /\ [][NextModel]_vars

\* ------------------------------------------------- properties: the feeder
NoDup(s) == \A a, b \in DOMAIN s : a # b => s[a] # s[b]

\* the label the code encodes: the dictionary key (text before the first
\* dot) cut at its first underscore
CodeLabel(name) == split0(split0(name, "."), "_")

\* the label as the specification words it: text before the first underscore
SpecLabel(name) == split0(name, "_")

IsOneHotAt(row, idx) == \A k \in DOMAIN row : row[k] = (IF k = idx + 1 THEN 1 ELSE 0)

OnesIn(row) == Cardinality({ k \in DOMAIN row : row[k] = 1 })

\* C1 (as stated): between two pool builds no filename is drawn twice, and
\* the first `count` draws after construction take every directory entry
\* exactly once with no refill among them.
C1_Claim ==
  /\ NoDup(used_files)
  /\ ~firstPassRefill
  /\ Cardinality(firstPass) = firstPassDraws
  /\ firstPassDraws = count => firstPass = directory

C2_Pre ==
  /\ pc = "returned"
  /\ \A r \in DOMAIN batchNames :
       /\ Len(CodeLabel(batchNames[r])) = captcha_length
       /\ Range(CodeLabel(batchNames[r])) \subseteq Range(captcha_symbols)

C3_Claim ==
  \A r \in DOMAIN batchNames :
    \A j \in DOMAIN y :
      ( /\ j <= Len(CodeLabel(batchNames[r]))
        /\ CodeLabel(batchNames[r])[j] \notin Range(captcha_symbols) )
      => \A k \in DOMAIN y[j][r] : y[j][r][k] = 0

\* C5: __len__ is floor(fileCount / batchSize) of the directory listed at
\* construction, whatever draws and refills have happened since.
C5_LenIsFloor ==
  LET n == Cardinality(directory)
      q == ImageSequence_len
  IN /\ q \in Nat
     /\ q * batch_size <= n
     /\ n < (q + 1) * batch_size

C5_Witness ==
  /\ callsReturned >= 2
  /\ \E r \in batchRefills : TRUE
  /\ ImageSequence_len >= 1
  /\ Cardinality(DOMAIN files) < count

\* C9 (as stated, its consequence): when fileCount is not a multiple of
\* batchSize, the consecutive batches of a run reach one that was refilled
\* after its first row, at the latest the batch holding draw fileCount + 1.
C9_Claim ==
  ( /\ count % batch_size # 0
    /\ ~everRaised
    /\ callsReturned > count \div batch_size )
  => everMixed

\* C10: pool and used list are duplicate-free, disjoint and together hold
\* what the latest pool build loaded; a draw moves one filename from the
\* pool to the used list; only a refill empties the used list.
C10_Partition ==
  /\ NoDup(used_files)
  /\ \A a, b \in DOMAIN files : a # b => files[a] # files[b]
  /\ Range(files) \cap Range(used_files) = {}
  /\ Range(files) \cup Range(used_files) = loaded
  /\ loaded \subseteq directory

C10_Move ==
  used_files' # used_files =>
    \/ /\ DOMAIN files # {}
       /\ \E f \in Range(files) :
            /\ used_files' = Append(used_files, f)
            /\ Range(files') = Range(files) \ {f}
    \/ /\ DOMAIN files = {}
       /\ \/ used_files' = << >>
          \/ \E f \in loaded' :
               /\ used_files' = << f >>
               /\ Range(files') = loaded' \ {f}

C10_PoolPartition == [](C10_Partition) /\ [][C10_Move]_vars

C10_Witness ==
  /\ \E r \in batchRefills : r > 0
  /\ Len(used_files) >= 1
  /\ DOMAIN files # {}
  /\ callsReturned >= 1

\* ------------------------------------------------- properties: the driver
CheckOrder == << "width", "height", "length", "batch_size", "epochs",
                 "train_dataset", "validate_dataset", "output_model_name",
                 "symbols" >>

FlagMessage ==
  [ f \in Range(CheckOrder) |->
      CASE f = "width" -> "Please specify the captcha image width"
        [] f = "height" -> "Please specify the captcha image height"
        [] f = "length" -> "Please specify the captcha length"
        [] f = "batch_size" -> "Please specify the training batch size"
        [] f = "epochs" -> "Please specify the number of training epochs to run"
        [] f = "train_dataset" -> "Please specify the path to the training data set"
        [] f = "validate_dataset" -> "Please specify the path to the validation data set"
        [] f = "output_model_name" -> "Please specify a name for the trained model"
        [] f = "symbols" -> "Please specify the captcha symbols file" ]

MissingAt == { k \in DOMAIN CheckOrder : CheckOrder[k] \notin args }

FirstMissing == CheckOrder[CHOOSE k \in MissingAt : \A m \in MissingAt : k <= m]

\* C4: with a required flag missing, main prints the message of the first
\* missing flag in check order and nothing else, exits with code 1 and builds
\* no model, writes no file and trains no epoch; with all nine present it
\* never takes the validation exit, --input-model given or not.
C4_Validation ==
  /\ (MissingAt # {} /\ mpc # "validate" /\ interruptedAt = "none") =>
       /\ mpc = "exited"
       /\ exitCode = 1
       /\ printed = << FlagMessage[FirstMissing] >>
       /\ ~modelBuilt /\ ~compiled /\ ~feedersBuilt
       /\ jsonWrites = 0 /\ kerasWrites = 0 /\ resumeWrites = 0
       /\ epochsDone = 0
  /\ MissingAt = {} => mpc # "exited"

C4_Witness ==
  /\ mpc = "exited"
  /\ "width" \in args
  /\ "epochs" \notin args
  /\ "train_dataset" \notin args
  /\ "symbols" \notin args

C7_State ==
  /\ jsonWrites <= 1
  /\ jsonWrites = 1 =>
       /\ \A f \in Flags \ {"input_model"} : f \in args
       /\ modelBuilt /\ compiled
  /\ (mpc = "fit" \/ epochsDone > 0) => jsonWrites = 1
  /\ kerasWrites = epochsDone

C7_Step ==
  /\ jsonWrites' # jsonWrites => (epochsDone = 0 /\ compiled /\ mpc # "fit")
  /\ epochsDone' # epochsDone =>
       /\ jsonWrites = 1
       /\ epochsDone' = epochsDone + 1
       /\ kerasWrites' = kerasWrites + 1

\* C7: <output-model-name>.json is written once, after validation and
\* compilation and before the first epoch; <output-model-name>.keras is
\* written at the end of every completed epoch, improved or not.
C7_OutputOrdering == [](C7_State) /\ [][C7_Step]_vars

C7_Witness ==
  /\ epochsDone >= 2
  /\ ~lastImproved
  /\ kerasWrites = epochsDone
  /\ jsonWrites = 1

\* ------------------------------------------- properties: the model builder
\* width of block b when the width starts at 32 and doubles up to 256
RECURSIVE Doubling(_)
Doubling(b) == IF b = 0 THEN 32 ELSE Min(2 * Doubling(b - 1), 256)

BlockLen == 3 * module_size + 1

\* C8: the trunk is model_depth blocks, each module_size repetitions of
\* convolution, batch normalisation, relu followed by one 2x max-pooling,
\* block b convolving with 32 * 2^min(b, 3) filters; the outputs are
\* captcha_length softmax heads of captcha_num_symbols units named
\* char_1 .. char_<captcha_length>, each fed by the flattened trunk.
C8_Topology ==
  model # << >> =>
    /\ Len(model.trunk) = model_depth * BlockLen
    /\ \A p \in DOMAIN model.trunk :
         LET b == (p - 1) \div BlockLen
             o == (p - 1) % BlockLen
             l == model.trunk[p]
         IN IF o = BlockLen - 1
            THEN l.layer = "MaxPooling2D" /\ l.pool_size = 2
            ELSE CASE o % 3 = 0 -> /\ l.layer = "Conv2D"
                                   /\ l.filters = Doubling(b)
                                   /\ l.filters = 32 * Pow2(Min(b, 3))
                   [] o % 3 = 1 -> l.layer = "BatchNormalization"
                   [] o % 3 = 2 -> l.layer = "Activation" /\ l.activation = "relu"
    /\ model.flatten.layer = "Flatten"
    /\ Len(model.outputs) = cm_length
    /\ \A h \in DOMAIN model.outputs :
         /\ model.outputs[h].layer = "Dense"
         /\ model.outputs[h].activation = "softmax"
         /\ model.outputs[h].units = captcha_num_symbols
         /\ model.outputs[h].name = << "char_", h >>
         /\ model.outputs[h].input = model.flatten.name

C8_Witness ==
  /\ model # << >>
  /\ model_depth = 5
  /\ module_size = 2
  /\ cm_length = 2
  /\ model.trunk[29].filters = 256

====
